---- MODULE Spec2Model ----
(***************************************************************************)
(* A model of yabridge's Wine host utilities (src/wine-host/utils.h) and   *)
(* of the IUnitHandler2 serialization wrapper                              *)
(* (src/common/serialization/vst3/component-handler/unit-handler-2.h).     *)
(*                                                                         *)
(*   Spec        PluginContext: the events timer, the thread inside run()   *)
(*               that runs the completion callbacks, and stop().            *)
(*   RouteSpec   the same with the callers that route inbound calls on      *)
(*               event_loop_active, under fair scheduling of their threads. *)
(*   TickSpec    the events timer while stop() is not called and every      *)
(*               handler returns, under fair scheduling of the thread       *)
(*               inside run().                                              *)
(*   ThreadSpec  Win32Thread: construction, moves and destruction of the    *)
(*               instances that own thread handles, and the threads they    *)
(*               started.                                                   *)
(*   ArgSpec     Win32Thread: the constructor's arguments, the caller's     *)
(*               argument objects and the thread that reads them.           *)
(*   TimerSpec   Win32Timer: construction, moves and destruction of the     *)
(*               instances that own window timers.                          *)
(*   ProxySpec   YaUnitHandler2: the probe of the real object, the          *)
(*               ConstructArgs on the wire, and the calls of                *)
(*               notifyUnitByBusChange() that the proxy mirrors.            *)
(***************************************************************************)
EXTENDS Integers, Sequences, FiniteSets, TLC

(***************************************************************************)
(* Program constants, in milliseconds.                                     *)
(***************************************************************************)
\* std::chrono::milliseconds(1000) / 30: integer division of the tick count.
event_loop_interval == 1000 \div 30

\* std::chrono::milliseconds(5) in async_handle_events().
min_gap == 5

(***************************************************************************)
(* Bounds of the model.                                                    *)
(***************************************************************************)
\* The clock stops advancing here.
MaxTime == 80

\* The amounts by which the clock advances in one step: less than the minimum
\* gap, and more than the interval (a handler that overruns).
Steps == {3, 35}

\* Calls of async_handle_events() made from outside the completion callback.
MaxCalls == 2

\* Inbound calls that reach the receiving threads.
MaxInbound == 2

\* Win32Thread instances that are constructed.
MaxThreadObjs == 2

\* Win32Timer instances that are constructed.
MaxTimerObjs == 3

\* Timer ids a caller chooses from.
MaxTimerIds == 2

\* Calls that one thread makes.
MaxIssued == 2

\* No time yet: the value of a history variable before its first event.
None == 0 - 1

Max(a, b) == IF a >= b THEN a ELSE b

VARIABLES
    now,                \* std::chrono::steady_clock::now()
    expiry,             \* events_timer.expiry()
    timer_waits,        \* the async_wait()s that sit in the timer queue
    ready,              \* completion callbacks queued on the io_context:
                        \* a sequence of "ok" / "aborted" error codes
    event_loop_active,  \* PluginContext::event_loop_active
    pc,                 \* where the thread that calls run() is
    stopped,            \* io_context::stopped()
    calls,              \* outside calls of async_handle_events() so far
    rt,                 \* the handler's blocking round trip: none/waiting/done
    inbound,            \* inbound calls: id -> [st, trig]
    last_return,        \* history: now when a handler last returned
    ticks,              \* history: handler invocations started
    toggles,            \* history: times event_loop_active went from true
                        \* to false
    rearms,             \* history: times the callback scheduled the next
                        \* tick
    all_instant,        \* history: every handler so far returned, and no
                        \* time passed while it executed
    thread,             \* Win32Thread instances: id -> [st, handle]
    created,            \* the thread handles that CreateThread() returned
    closed,             \* CloseHandle() calls per thread handle
    closure,            \* per thread handle, the std::function on the heap:
                        \* none / heap / running / freed
    invoked,            \* per thread handle: times the entry function ran
    deleted,            \* per thread handle: times the closure was deleted
    caller_arg,         \* per thread handle, the caller's argument objects:
                        \* same (as at construction) / changed / gone
    received,           \* per thread handle: the argument values the entry
                        \* function got: none / same / changed / garbage
    wtimer,             \* Win32Timer instances:
                        \* id -> [st, window_handle, timer_id]
    armed,              \* the window timers that are set: <<window, id>>
    set_count,          \* SetTimer() calls per <<window, id>>
    kill_count,         \* KillTimer() calls per <<window, id>>
    implements,         \* whether the real object implements IUnitHandler2
    pst,                \* per object: none / exists / probed / sent / built
    args,               \* the ConstructArgs read from the real object
    wire,               \* the serialized ConstructArgs, a sequence of bytes
    proxy,              \* the YaUnitHandler2 instances: [arguments]
    cst,                \* per calling thread: idle / waiting
    cur,                \* per calling thread: the proxy of its latest call
    issued,             \* per calling thread: calls made so far
    result,             \* per calling thread: outcome of its latest call
    sent,               \* per calling thread: requests sent for that call
    requests,           \* requests on the channel
    responses,          \* responses on the channel
    remote_log,         \* the calls the real objects received, in order
    returned,           \* per calling thread: what the real object returned
                        \* for its latest call
    transport_calls     \* per proxy: requests handed to the transport

tickHist == <<ticks, toggles, rearms, all_instant>>
schedVars == <<now, expiry, timer_waits, ready, event_loop_active, pc, stopped,
               calls, rt, last_return, tickHist>>
execVars == <<closure, invoked, deleted, caller_arg, received>>
threadVars == <<thread, created, closed, execVars>>
timerVars == <<wtimer, armed, set_count, kill_count>>
proxyVars == <<implements, pst, args, wire, proxy, cst, cur, issued, result,
               sent, requests, responses, remote_log, returned,
               transport_calls>>
vars == <<schedVars, inbound, threadVars, timerVars, proxyVars>>

\* What the operations of one component leave alone.
notSched == <<threadVars, timerVars, proxyVars>>
notThread == <<schedVars, inbound, timerVars, proxyVars>>
notTimer == <<schedVars, inbound, threadVars, proxyVars>>
notProxy == <<schedVars, inbound, threadVars, timerVars>>

Calls == 1..MaxInbound
NoCall == [st |-> "none", trig |-> FALSE]

(***************************************************************************)
(* PluginContext                                                           *)
(***************************************************************************)
\* The new expiry without the minimum gap: a steady framerate only.
NextExpiry_steady(prev, t) == prev + event_loop_interval

\* The new expiry measured from now: the interval after the call.
NextExpiry_from_now(prev, t) == t + event_loop_interval

\* The new expiry without the interval: the minimum gap after the call.
NextExpiry_gap_only(prev, t) == t + min_gap

\* events_timer.expires_at(std::max(expiry() + event_loop_interval,
\*                                  now() + 5ms)): the new expiry.
NextExpiry(prev, t) == Max(prev + event_loop_interval, t + min_gap)

\* n completion callbacks with error code e.
Callbacks(n, e) == [i \in 1..n |-> e]

\* expires_at() without the cancellation: the waits in the timer queue stay
\* there, and async_wait() adds one.
ArmTimer_no_cancel ==
    /\ expiry' = NextExpiry(expiry, now)
    /\ ready' = ready
    /\ timer_waits' = timer_waits + 1

\* expires_at() cancels the waits that are still in the timer queue: their
\* callbacks are queued with operation_aborted.  A wait that already completed
\* is not cancelled.  async_wait() then puts a new wait in the timer queue.
ArmTimer ==
    /\ expiry' = NextExpiry(expiry, now)
    /\ ready' = ready \o Callbacks(timer_waits, "aborted")
    /\ timer_waits' = 1

\* PluginContext(): the context and the timer are constructed, nothing runs.
InitSched ==
    /\ now = 0
    /\ expiry = 0
    /\ timer_waits = 0
    /\ ready = <<>>
    /\ event_loop_active = FALSE
    /\ pc = "norun"
    /\ stopped = FALSE
    /\ calls = 0
    /\ rt = "none"
    /\ inbound = [c \in Calls |-> NoCall]
    /\ last_return = None
    /\ ticks = 0
    /\ toggles = 0
    /\ rearms = 0
    /\ all_instant = TRUE

\* async_handle_events() that also resets event_loop_active when it arms the
\* timer.
async_handle_events_clears_flag ==
    /\ calls < MaxCalls
    /\ pc \in {"norun", "loop", "handler"}
    /\ calls' = calls + 1
    /\ ArmTimer
    /\ event_loop_active' = FALSE
    /\ UNCHANGED notSched
    /\ UNCHANGED <<now, pc, stopped, rt, inbound, last_return, tickHist>>

\* async_handle_events(handler) called by the program (not by the callback),
\* on the thread that calls run(): before run(), from a task that runs on the
\* io_context, or from the handler.
async_handle_events ==
    /\ calls < MaxCalls
    /\ pc \in {"norun", "loop", "handler"}
    /\ calls' = calls + 1
    /\ ArmTimer
    /\ UNCHANGED notSched
    /\ UNCHANGED <<now, event_loop_active, pc, stopped, rt, inbound, last_return, tickHist>>

\* run(): the calling thread enters the io_context's loop.
run ==
    /\ pc = "norun"
    /\ pc' = "loop"
    /\ UNCHANGED notSched
    /\ UNCHANGED <<now, expiry, timer_waits, ready, event_loop_active, stopped,
                   calls, rt, inbound, last_return, tickHist>>

\* stop(): drop all future work.
stop ==
    /\ ~stopped
    /\ stopped' = TRUE
    /\ UNCHANGED notSched
    /\ UNCHANGED <<now, expiry, timer_waits, ready, event_loop_active, pc,
                   calls, rt, inbound, last_return, tickHist>>

\* run() returns once the context is stopped and no callback is executing.
run_returns ==
    /\ pc = "loop"
    /\ stopped
    /\ pc' = "exited"
    /\ UNCHANGED notSched
    /\ UNCHANGED <<now, expiry, timer_waits, ready, event_loop_active, stopped,
                   calls, rt, inbound, last_return, tickHist>>

\* The reactor thread finds the timer expired: the waits in the timer queue
\* complete without an error and their callbacks are queued.  The thread looks
\* at the timer queue only after it ran the callbacks that its previous look
\* completed.
timer_expires ==
    /\ pc = "loop"
    /\ ~stopped
    /\ timer_waits > 0
    /\ now >= expiry
    /\ \A i \in 1..Len(ready) : ready[i] # "ok"
    /\ timer_waits' = 0
    /\ ready' = ready \o Callbacks(timer_waits, "ok")
    /\ UNCHANGED notSched
    /\ UNCHANGED <<now, expiry, event_loop_active, pc, stopped, calls, rt,
                   inbound, last_return, tickHist>>

\* The callback of a cancelled wait without the check of the error code:
\* event_loop_active = true; handler() starts.
callback_error_runs_handler ==
    /\ pc = "loop"
    /\ ~stopped
    /\ ready # <<>>
    /\ Head(ready) = "aborted"
    /\ ready' = Tail(ready)
    /\ event_loop_active' = TRUE
    /\ pc' = "handler"
    /\ rt' = "none"
    /\ ticks' = ticks + 1
    /\ UNCHANGED notSched
    /\ UNCHANGED <<now, expiry, timer_waits, stopped, calls, inbound,
                   last_return, toggles, rearms, all_instant>>

\* The callback of a cancelled wait: if (error.failed()) return;
callback_error ==
    /\ pc = "loop"
    /\ ~stopped
    /\ ready # <<>>
    /\ Head(ready) = "aborted"
    /\ ready' = Tail(ready)
    /\ UNCHANGED notSched
    /\ UNCHANGED <<now, expiry, timer_waits, event_loop_active, pc, stopped,
                   calls, rt, inbound, last_return, tickHist>>

\* The callback of a completed wait with the assignment at its start left
\* out: handler() starts and event_loop_active keeps its value.
callback_start_flag_unset ==
    /\ pc = "loop"
    /\ ~stopped
    /\ ready # <<>>
    /\ Head(ready) = "ok"
    /\ ready' = Tail(ready)
    /\ pc' = "handler"
    /\ rt' = "none"
    /\ ticks' = ticks + 1
    /\ UNCHANGED notSched
    /\ UNCHANGED <<now, expiry, timer_waits, event_loop_active, stopped, calls,
                   inbound, last_return, toggles, rearms,
                   all_instant>>

\* The callback of a completed wait: event_loop_active = true; handler() starts.
callback_start ==
    /\ pc = "loop"
    /\ ~stopped
    /\ ready # <<>>
    /\ Head(ready) = "ok"
    /\ ready' = Tail(ready)
    /\ event_loop_active' = TRUE
    /\ pc' = "handler"
    /\ rt' = "none"
    /\ ticks' = ticks + 1
    /\ UNCHANGED notSched
    /\ UNCHANGED <<now, expiry, timer_waits, stopped, calls, inbound, last_return, toggles, rearms,
                   all_instant>>

\* handler() returns and the assignment after it is left out:
\* event_loop_active keeps its value.
handler_returns_flag_kept ==
    /\ pc = "handler"
    /\ rt # "waiting"
    /\ pc' = "resched"
    /\ last_return' = now
    /\ UNCHANGED notSched
    /\ UNCHANGED <<now, expiry, timer_waits, ready, event_loop_active, stopped,
                   calls, rt, inbound, tickHist>>

\* handler() returns; event_loop_active = false.
handler_returns ==
    /\ pc = "handler"
    /\ rt # "waiting"
    /\ event_loop_active' = FALSE
    /\ pc' = "resched"
    /\ last_return' = now
    /\ toggles' = IF event_loop_active THEN toggles + 1 ELSE toggles
    /\ UNCHANGED notSched
    /\ UNCHANGED <<now, expiry, timer_waits, ready, stopped, calls, rt, inbound,
                   ticks, rearms, all_instant>>

\* handler() throws: the exception leaves the callback and run(); the
\* statements after handler() are not executed.
handler_throws ==
    /\ pc = "handler"
    /\ rt # "waiting"
    /\ pc' = "exited"
    /\ all_instant' = FALSE
    /\ UNCHANGED notSched
    /\ UNCHANGED <<now, expiry, timer_waits, ready, event_loop_active, stopped,
                   calls, rt, inbound, last_return, ticks, toggles, rearms>>

\* The callback without its last statement: the timer is not armed again.
callback_reschedule_forgotten ==
    /\ pc = "resched"
    /\ pc' = "loop"
    /\ UNCHANGED notSched
    /\ UNCHANGED <<now, expiry, timer_waits, ready, event_loop_active, stopped,
                   calls, rt, inbound, last_return, tickHist>>

\* The callback's last statement: async_handle_events(handler).
callback_reschedule ==
    /\ pc = "resched"
    /\ ArmTimer
    /\ pc' = "loop"
    /\ rearms' = rearms + 1
    /\ UNCHANGED notSched
    /\ UNCHANGED <<now, event_loop_active, stopped, calls, rt, inbound, last_return,
                   ticks, toggles, all_instant>>

\* Time passes.
advance ==
    /\ \E d \in Steps :
          /\ now + d <= MaxTime
          /\ now' = now + d
    /\ all_instant' = (all_instant /\ pc # "handler")
    /\ UNCHANGED notSched
    /\ UNCHANGED <<expiry, timer_waits, ready, event_loop_active, pc, stopped,
                   calls, rt, inbound, last_return, ticks, toggles, rearms>>

\* Time passes until the timer's expiry.
advance_to_expiry ==
    /\ timer_waits > 0
    /\ expiry > now
    /\ expiry <= MaxTime
    /\ now' = expiry
    /\ all_instant' = (all_instant /\ pc # "handler")
    /\ UNCHANGED notSched
    /\ UNCHANGED <<expiry, timer_waits, ready, event_loop_active, pc, stopped,
                   calls, rt, inbound, last_return, ticks, toggles, rearms>>

(***************************************************************************)
(* The callers that consult event_loop_active.  While the handler runs the *)
(* Win32 message loop, the plugin may call the other side and block until  *)
(* it answers; the other side may call back before it answers.  A thread   *)
(* that receives an inbound call reads event_loop_active: if it is true    *)
(* the call is serviced on a helper thread, otherwise it is posted to the  *)
(* io_context and serviced by the thread inside run().                     *)
(***************************************************************************)
\* The handler calls the other side and blocks until the response.
handler_round_trip ==
    /\ pc = "handler"
    /\ rt = "none"
    /\ rt' = "waiting"
    /\ UNCHANGED notSched
    /\ UNCHANGED <<now, expiry, timer_waits, ready, event_loop_active, pc,
                   stopped, calls, inbound, last_return, tickHist>>

\* An inbound call reaches a receiving thread; trig: the other side makes it
\* while it handles the handler's round trip, and answers only after it.
inbound_call(c, trig) ==
    /\ inbound[c].st = "none"
    /\ \A b \in Calls : b < c => inbound[b].st # "none"
    /\ trig => rt = "waiting"
    /\ inbound' = [inbound EXCEPT ![c] = [st |-> "arrived", trig |-> trig]]
    /\ UNCHANGED notSched
    /\ UNCHANGED schedVars

\* The routing decision for a value of event_loop_active.
RouteFor(active) == IF active THEN "helper" ELSE "toPost"

\* The receiving thread reads event_loop_active and decides.
route_read(c) ==
    /\ inbound[c].st = "arrived"
    /\ inbound' = [inbound EXCEPT ![c].st = RouteFor(event_loop_active)]
    /\ UNCHANGED notSched
    /\ UNCHANGED schedVars

\* The receiving thread posts the call to the io_context.
route_post(c) ==
    /\ inbound[c].st = "toPost"
    /\ inbound' = [inbound EXCEPT ![c].st = "posted"]
    /\ UNCHANGED notSched
    /\ UNCHANGED schedVars

\* The helper thread services the call.
helper_services(c) ==
    /\ inbound[c].st = "helper"
    /\ inbound' = [inbound EXCEPT ![c].st = "serviced"]
    /\ UNCHANGED notSched
    /\ UNCHANGED schedVars

\* The thread inside run() services a posted call.
reactor_services(c) ==
    /\ pc = "loop"
    /\ ~stopped
    /\ inbound[c].st = "posted"
    /\ inbound' = [inbound EXCEPT ![c].st = "serviced"]
    /\ UNCHANGED notSched
    /\ UNCHANGED schedVars

\* The other side answers the round trip once the calls it made are serviced.
round_trip_response ==
    /\ rt = "waiting"
    /\ \A c \in Calls : inbound[c].trig => inbound[c].st = "serviced"
    /\ rt' = "done"
    /\ UNCHANGED notSched
    /\ UNCHANGED <<now, expiry, timer_waits, ready, event_loop_active, pc,
                   stopped, calls, inbound, last_return, tickHist>>

(***************************************************************************)
(* Win32Thread: a std::unique_ptr<HANDLE, CloseHandle> around the handle   *)
(* that CreateThread() returns.                                            *)
(***************************************************************************)
ThreadObjs == 1..MaxThreadObjs

\* CreateThread() returns a handle that no earlier call returned: the handle
\* is named after the instance whose constructor made the call.
Handles == ThreadObjs

\* A null handle.
NullHandle == 0

InitThread ==
    /\ thread = [o \in ThreadObjs |-> [st |-> "unborn", handle |-> NullHandle]]
    /\ created = {}
    /\ closed = [h \in Handles |-> 0]
    /\ closure = [h \in Handles |-> "none"]
    /\ invoked = [h \in Handles |-> 0]
    /\ deleted = [h \in Handles |-> 0]
    /\ caller_arg = [h \in Handles |-> "same"]
    /\ received = [h \in Handles |-> "none"]

\* A deleter that is never called: the handle is dropped.
CloseHandle_leak(cl, h) == cl

\* The unique_ptr's deleter: CloseHandle(h), not called for a null pointer.
CloseHandle(cl, h) ==
    IF h = NullHandle THEN cl ELSE [cl EXCEPT ![h] = @ + 1]

\* Win32Thread(): no thread is started, the handle is a null pointer.
thread_default(o) ==
    /\ thread[o].st = "unborn"
    /\ thread' = [thread EXCEPT ![o] = [st |-> "alive", handle |-> NullHandle]]
    /\ UNCHANGED <<created, closed, execVars>>
    /\ UNCHANGED notThread

\* Win32Thread(f, args...): handle(CreateThread(...), CloseHandle).
\* The closure is allocated with new before CreateThread() is called; it
\* holds f and references to the caller's argument objects.  CreateThread()
\* returns a new handle, or a null handle when it fails; the constructor
\* returns normally in both cases.
thread_start(o) ==
    /\ thread[o].st = "unborn"
    /\ closure' = [closure EXCEPT ![o] = "heap"]
    /\ UNCHANGED <<invoked, deleted, caller_arg, received>>
    /\ \E ok \in BOOLEAN :
          IF ok
          THEN /\ created' = created \cup {o}
               /\ thread' = [thread EXCEPT
                                ![o] = [st |-> "alive", handle |-> o]]
          ELSE /\ created' = created
               /\ thread' = [thread EXCEPT
                                ![o] = [st |-> "alive", handle |-> NullHandle]]
    /\ UNCHANGED closed
    /\ UNCHANGED notThread

\* Win32Thread(Win32Thread&& o): the unique_ptr is moved, o's becomes null.
thread_move_construct(o, src) ==
    /\ thread[o].st = "unborn"
    /\ thread[src].st = "alive"
    /\ thread' = [thread EXCEPT
                     ![o] = [st |-> "alive", handle |-> thread[src].handle],
                     ![src].handle = NullHandle]
    /\ UNCHANGED <<created, closed, execVars>>
    /\ UNCHANGED notThread

\* operator=(Win32Thread&& o): the unique_ptr is move-assigned: the handle
\* the destination held is closed, the source's handle is taken and the
\* source's becomes null.  Assigning an instance to itself changes nothing.
thread_move_assign(dst, src) ==
    /\ thread[dst].st = "alive"
    /\ thread[src].st = "alive"
    /\ IF dst = src
       THEN UNCHANGED <<thread, closed>>
       ELSE /\ closed' = CloseHandle(closed, thread[dst].handle)
            /\ thread' = [thread EXCEPT
                             ![dst].handle = thread[src].handle,
                             ![src].handle = NullHandle]
    /\ UNCHANGED <<created, execVars>>
    /\ UNCHANGED notThread

\* A destructor that also terminates the thread behind the handle: the entry
\* function does not return and the closure is not deleted.
thread_destroy_terminates(o) ==
    /\ thread[o].st = "alive"
    /\ closed' = CloseHandle(closed, thread[o].handle)
    /\ thread' = [thread EXCEPT ![o].st = "dead"]
    /\ closure' = [h \in Handles |->
                     IF h = thread[o].handle /\ closure[h] \in {"heap", "running"}
                     THEN "terminated" ELSE closure[h]]
    /\ UNCHANGED <<created, invoked, deleted, caller_arg, received>>
    /\ UNCHANGED notThread

\* ~Win32Thread() (implicit): the unique_ptr closes the handle it holds.
thread_destroy(o) ==
    /\ thread[o].st = "alive"
    /\ closed' = CloseHandle(closed, thread[o].handle)
    /\ thread' = [thread EXCEPT ![o].st = "dead"]
    /\ UNCHANGED <<created, execVars>>
    /\ UNCHANGED notThread

\* What a read through a reference to an object that is gone yields: the
\* old bytes, or whatever was written over them.
Dangling == {"same", "garbage"}

\* The values that decay_copy() reads through the closure's references.
ArgsRead(a) == IF a = "gone" THEN Dangling ELSE {a}

\* The caller writes to an argument object it passed to the constructor.
caller_modifies_arg(h) ==
    /\ closure[h] # "none"
    /\ caller_arg[h] = "same"
    /\ caller_arg' = [caller_arg EXCEPT ![h] = "changed"]
    /\ UNCHANGED <<thread, created, closed, closure, invoked, deleted, received>>
    /\ UNCHANGED notThread

\* The caller's argument objects go out of scope: temporaries at the end of
\* the statement that constructs the instance, locals at the end of their
\* block.
caller_arg_scope_ends(h) ==
    /\ closure[h] # "none"
    /\ caller_arg[h] # "gone"
    /\ caller_arg' = [caller_arg EXCEPT ![h] = "gone"]
    /\ UNCHANGED <<thread, created, closed, closure, invoked, deleted, received>>
    /\ UNCHANGED notThread

\* The new thread invokes the closure:
\* std::invoke(f, decay_copy(std::forward<Args>(args))...), where args are
\* the references the closure captured.
thread_runs(h) ==
    /\ h \in created
    /\ closure[h] = "heap"
    /\ closure' = [closure EXCEPT ![h] = "running"]
    /\ invoked' = [invoked EXCEPT ![h] = @ + 1]
    /\ \E v \in ArgsRead(caller_arg[h]) :
          received' = [received EXCEPT ![h] = v]
    /\ UNCHANGED <<thread, created, closed, deleted, caller_arg>>
    /\ UNCHANGED notThread

\* The entry function returns and win32_thread_trampoline() deletes the
\* closure.
thread_finishes(h) ==
    /\ closure[h] = "running"
    /\ closure' = [closure EXCEPT ![h] = "freed"]
    /\ deleted' = [deleted EXCEPT ![h] = @ + 1]
    /\ UNCHANGED <<thread, created, closed, invoked, caller_arg, received>>
    /\ UNCHANGED notThread

(***************************************************************************)
(* Win32Timer: SetTimer(window_handle, timer_id, interval_ms) on           *)
(* construction, KillTimer(window_handle, timer_id) on destruction.        *)
(***************************************************************************)
TimerObjs == 1..MaxTimerObjs
\* The windows that timers are set on.
Windows == {1, 2}
TimerIds == 1..MaxTimerIds
NativeTimers == Windows \X TimerIds

\* std::nullopt in timer_id.
NoTimer == 0

InitTimer ==
    /\ wtimer = [o \in TimerObjs |->
                   [st |-> "unborn", window_handle |-> 1, timer_id |-> NoTimer]]
    /\ armed = {}
    /\ set_count = [t \in NativeTimers |-> 0]
    /\ kill_count = [t \in NativeTimers |-> 0]

\* The native timer an instance holds.
Held(r) == <<r.window_handle, r.timer_id>>

\* Win32Timer(window_handle, timer_id, interval_ms): SetTimer().  The caller
\* chooses an id that is not in use on that window.
timer_construct(o, w, id) ==
    /\ wtimer[o].st = "unborn"
    /\ <<w, id>> \notin armed
    /\ wtimer' = [wtimer EXCEPT
                     ![o] = [st |-> "alive", window_handle |-> w,
                             timer_id |-> id]]
    /\ armed' = armed \cup {<<w, id>>}
    /\ set_count' = [set_count EXCEPT ![<<w, id>>] = @ + 1]
    /\ UNCHANGED kill_count
    /\ UNCHANGED notTimer

\* An instance that forgets its timer without KillTimer().
Disarm_forget(r) == UNCHANGED <<armed, kill_count>>

\* What an instance that goes away, or is assigned to, does with its timer:
\* if (timer_id) KillTimer(window_handle, *timer_id).
Disarm(r) ==
    IF r.timer_id = NoTimer
    THEN UNCHANGED <<armed, kill_count>>
    ELSE /\ armed' = armed \ {Held(r)}
         /\ kill_count' = [kill_count EXCEPT ![Held(r)] = @ + 1]

\* ~Win32Timer().
timer_destroy(o) ==
    /\ wtimer[o].st = "alive"
    /\ Disarm(wtimer[o])
    /\ wtimer' = [wtimer EXCEPT ![o].st = "dead"]
    /\ UNCHANGED set_count
    /\ UNCHANGED notTimer

\* Win32Timer(Win32Timer&& o): the window and the id are taken, o's id is
\* reset.
timer_move_construct(o, src) ==
    /\ wtimer[o].st = "unborn"
    /\ wtimer[src].st = "alive"
    /\ wtimer' = [wtimer EXCEPT
                     ![o] = [st |-> "alive",
                             window_handle |-> wtimer[src].window_handle,
                             timer_id |-> wtimer[src].timer_id],
                     ![src].timer_id = NoTimer]
    /\ UNCHANGED <<armed, set_count, kill_count>>
    /\ UNCHANGED notTimer

\* operator=(Win32Timer&& o): the timer the destination held is released,
\* the source's window and id are taken, and the source's id is reset.
timer_move_assign(dst, src) ==
    /\ wtimer[dst].st = "alive"
    /\ wtimer[src].st = "alive"
    /\ dst # src
    /\ Disarm(wtimer[dst])
    /\ wtimer' = [wtimer EXCEPT
                     ![dst].window_handle = wtimer[src].window_handle,
                     ![dst].timer_id = wtimer[src].timer_id,
                     ![src].timer_id = NoTimer]
    /\ UNCHANGED set_count
    /\ UNCHANGED notTimer

(***************************************************************************)
(* YaUnitHandler2: ConstructArgs is read from the real object on the side  *)
(* that owns it, serialized, and the proxy on the other side is built from *)
(* the deserialized value.  Every call of notifyUnitByBusChange() on the   *)
(* proxy is a request that blocks its caller until the response.           *)
(***************************************************************************)
\* The objects that are probed for IUnitHandler2, each with a proxy of its
\* own, and the threads that call the proxies.
Proxies == {1, 2}
Callers == {1, 2}
Results == {"kResultOk", "kResultFalse"}

\* ConstructArgs(): the value a deserializer reads into.
NoArgs == [supported |-> FALSE]

\* ConstructArgs(object): whether the object implements IUnitHandler2.
ConstructArgs(object_implements) == [supported |-> object_implements]

\* A serializer that writes a zero byte whatever the value.
serialize_zero(a) == <<0>>

\* serialize(S& s) on a serializer: s.value1b(supported) writes one byte.
serialize(a) == <<IF a.supported THEN 1 ELSE 0>>

\* serialize(S& s) on a deserializer: s.value1b(supported) reads one byte.
deserialize(bytes) == [supported |-> bytes[1] # 0]

\* An accessor that reports every interface as supported.
supported_always(x) == TRUE

\* bool supported() const { return arguments.supported; }
supported(x) == x.arguments.supported

InitProxy ==
    /\ implements = [p \in Proxies |-> FALSE]
    /\ pst = [p \in Proxies |-> "none"]
    /\ args = [p \in Proxies |-> NoArgs]
    /\ wire = [p \in Proxies |-> <<>>]
    /\ proxy = [p \in Proxies |-> [arguments |-> NoArgs]]
    /\ cst = [t \in Callers |-> "idle"]
    /\ cur = [t \in Callers |-> 1]
    /\ issued = [t \in Callers |-> 0]
    /\ result = [t \in Callers |-> "none"]
    /\ sent = [t \in Callers |-> 0]
    /\ requests = {}
    /\ responses = {}
    /\ remote_log = <<>>
    /\ returned = [t \in Callers |-> "none"]
    /\ transport_calls = [p \in Proxies |-> 0]

\* A real object comes to exist; it implements IUnitHandler2 or it does not.
real_object(p, b) ==
    /\ pst[p] = "none"
    /\ implements' = [implements EXCEPT ![p] = b]
    /\ pst' = [pst EXCEPT ![p] = "exists"]
    /\ UNCHANGED <<args, wire, proxy, cst, cur, issued, result, sent,
                   requests, responses, remote_log, returned,
                   transport_calls>>
    /\ UNCHANGED notProxy

\* The side that owns the real object probes it.
probe(p) ==
    /\ pst[p] = "exists"
    /\ args' = [args EXCEPT ![p] = ConstructArgs(implements[p])]
    /\ pst' = [pst EXCEPT ![p] = "probed"]
    /\ UNCHANGED <<implements, wire, proxy, cst, cur, issued, result, sent,
                   requests, responses, remote_log, returned,
                   transport_calls>>
    /\ UNCHANGED notProxy

\* The ConstructArgs are serialized and sent.
send_args(p) ==
    /\ pst[p] = "probed"
    /\ wire' = [wire EXCEPT ![p] = serialize(args[p])]
    /\ pst' = [pst EXCEPT ![p] = "sent"]
    /\ UNCHANGED <<implements, args, proxy, cst, cur, issued, result, sent,
                   requests, responses, remote_log, returned,
                   transport_calls>>
    /\ UNCHANGED notProxy

\* YaUnitHandler2(args): the proxy is built from the deserialized value.
construct_proxy(p) ==
    /\ pst[p] = "sent"
    /\ proxy' = [proxy EXCEPT ![p] = [arguments |-> deserialize(wire[p])]]
    /\ pst' = [pst EXCEPT ![p] = "built"]
    /\ UNCHANGED <<implements, args, wire, cst, cur, issued, result, sent,
                   requests, responses, remote_log, returned,
                   transport_calls>>
    /\ UNCHANGED notProxy

\* The request of thread t's latest call.
Request(t, p, n) == [t |-> t, p |-> p, n |-> n]

\* A call that sends its request and returns without the response.
notify_no_wait(t, p) ==
    /\ pst[p] = "built"
    /\ issued[t] < MaxIssued
    /\ issued' = [issued EXCEPT ![t] = @ + 1]
    /\ cur' = [cur EXCEPT ![t] = p]
    /\ requests' = requests \cup {Request(t, p, issued[t] + 1)}
    /\ transport_calls' = [transport_calls EXCEPT ![p] = @ + 1]
    /\ sent' = [sent EXCEPT ![t] = 1]
    /\ result' = [result EXCEPT ![t] = "none"]
    /\ returned' = [returned EXCEPT ![t] = "none"]
    /\ UNCHANGED <<implements, pst, args, wire, proxy, cst, responses,
                   remote_log>>
    /\ UNCHANGED notProxy

\* notifyUnitByBusChange() on proxy p, called by thread t: without support
\* the call fails at once; with it the request is sent and t blocks.
notifyUnitByBusChange(t, p) ==
    /\ cst[t] = "idle"
    /\ pst[p] = "built"
    /\ issued[t] < MaxIssued
    /\ issued' = [issued EXCEPT ![t] = @ + 1]
    /\ cur' = [cur EXCEPT ![t] = p]
    /\ IF supported(proxy[p])
       THEN /\ requests' = requests \cup {Request(t, p, issued[t] + 1)}
            /\ transport_calls' = [transport_calls EXCEPT ![p] = @ + 1]
            /\ cst' = [cst EXCEPT ![t] = "waiting"]
            /\ sent' = [sent EXCEPT ![t] = 1]
            /\ result' = [result EXCEPT ![t] = "none"]
       ELSE /\ result' = [result EXCEPT ![t] = "UnsupportedInterface"]
            /\ sent' = [sent EXCEPT ![t] = 0]
            /\ UNCHANGED <<requests, transport_calls, cst>>
    /\ returned' = [returned EXCEPT ![t] = "none"]
    /\ UNCHANGED <<implements, pst, args, wire, responses, remote_log, proxy>>
    /\ UNCHANGED notProxy

\* The real object receives a call, applies it and returns v.
remote_apply(req, v) ==
    /\ req \in requests
    /\ requests' = requests \ {req}
    /\ remote_log' = Append(remote_log, Request(req.t, req.p, req.n))
    /\ returned' = [returned EXCEPT ![req.t] = v]
    /\ responses' = responses \cup {[t |-> req.t, n |-> req.n, v |-> v]}
    /\ UNCHANGED <<implements, pst, args, wire, proxy, cst, cur, issued,
                   result, sent, transport_calls>>
    /\ UNCHANGED notProxy

\* The response arrives: the call returns what the real object returned.
receive_response(t) ==
    /\ cst[t] = "waiting"
    /\ \E r \in responses :
          /\ r.t = t
          /\ r.n = issued[t]
          /\ result' = [result EXCEPT ![t] = r.v]
          /\ responses' = responses \ {r}
    /\ cst' = [cst EXCEPT ![t] = "idle"]
    /\ UNCHANGED <<implements, pst, args, wire, proxy, cur, issued, sent,
                   requests, remote_log, returned,
                   transport_calls>>
    /\ UNCHANGED notProxy

\* A failed round trip answered by sending the request again.
transport_fails_retry(t) ==
    /\ cst[t] = "waiting"
    /\ sent[t] < 2
    /\ requests' = {r \in requests : r.t # t}
                       \cup {Request(t, cur[t], issued[t])}
    /\ responses' = {r \in responses : r.t # t}
    /\ sent' = [sent EXCEPT ![t] = @ + 1]
    /\ transport_calls' = [transport_calls EXCEPT ![cur[t]] = @ + 1]
    /\ UNCHANGED <<implements, pst, args, wire, proxy, cst, cur, issued,
                   result, remote_log, returned>>
    /\ UNCHANGED notProxy

\* The round trip cannot complete: the request or the response is lost, and
\* the call returns a failure.  Nothing is sent again.
transport_fails(t) ==
    /\ cst[t] = "waiting"
    /\ requests' = {r \in requests : r.t # t}
    /\ responses' = {r \in responses : r.t # t}
    /\ result' = [result EXCEPT ![t] = "RemoteCallError"]
    /\ cst' = [cst EXCEPT ![t] = "idle"]
    /\ UNCHANGED <<implements, pst, args, wire, proxy, cur, issued, sent,
                   remote_log, returned,
                   transport_calls>>
    /\ UNCHANGED notProxy

Init == InitSched /\ InitThread /\ InitTimer /\ InitProxy

SchedCore ==
    \/ async_handle_events
    \/ run
    \/ stop
    \/ run_returns
    \/ timer_expires
    \/ callback_error
    \/ callback_start
    \/ handler_returns
    \/ handler_throws
    \/ callback_reschedule
    \/ advance_to_expiry

SchedNext ==
    \/ SchedCore
    \/ advance

RouteNext ==
    \/ SchedCore
    \/ handler_round_trip
    \/ round_trip_response
    \/ \E c \in Calls : \E trig \in BOOLEAN : inbound_call(c, trig)
    \/ \E c \in Calls : route_read(c)
    \/ \E c \in Calls : route_post(c)
    \/ \E c \in Calls : helper_services(c)
    \/ \E c \in Calls : reactor_services(c)

\* The scheduler while stop() is not called and every handler returns.
TickNext ==
    \/ async_handle_events
    \/ run
    \/ timer_expires
    \/ callback_error
    \/ callback_start
    \/ handler_returns
    \/ callback_reschedule
    \/ advance
    \/ advance_to_expiry

ThreadNext ==
    \/ \E o \in ThreadObjs : thread_default(o)
    \/ \E o \in ThreadObjs : thread_start(o)
    \/ \E o, src \in ThreadObjs : thread_move_construct(o, src)
    \/ \E dst, src \in ThreadObjs : thread_move_assign(dst, src)
    \/ \E o \in ThreadObjs : thread_destroy(o)
    \/ \E h \in Handles : thread_runs(h)
    \/ \E h \in Handles : thread_finishes(h)

\* Win32Thread instances that are constructed with arguments and destroyed,
\* the caller's argument objects, and the threads.
ArgNext ==
    \/ \E o \in ThreadObjs : thread_start(o)
    \/ \E o \in ThreadObjs : thread_destroy(o)
    \/ \E h \in Handles : caller_modifies_arg(h)
    \/ \E h \in Handles : caller_arg_scope_ends(h)
    \/ \E h \in Handles : thread_runs(h)
    \/ \E h \in Handles : thread_finishes(h)

TimerNext ==
    \/ \E o \in TimerObjs : \E w \in Windows : \E id \in TimerIds :
          timer_construct(o, w, id)
    \/ \E o, src \in TimerObjs : timer_move_construct(o, src)
    \/ \E dst, src \in TimerObjs : timer_move_assign(dst, src)
    \/ \E o \in TimerObjs : timer_destroy(o)

ProxyNext ==
    \/ \E p \in Proxies : \E b \in BOOLEAN : real_object(p, b)
    \/ \E p \in Proxies : probe(p)
    \/ \E p \in Proxies : send_args(p)
    \/ \E p \in Proxies : construct_proxy(p)
    \/ \E t \in Callers : \E p \in Proxies : notifyUnitByBusChange(t, p)
    \/ \E req \in requests : \E v \in Results : remote_apply(req, v)
    \/ \E t \in Callers : receive_response(t)
    \/ \E t \in Callers : transport_fails(t)

\* The scheduler with the clock advancing freely.
Spec == Init /\ [][SchedNext]_vars

\* The scheduler with the callers that route on event_loop_active.  The
\* receiving threads and the helper threads are threads of their own: each
\* keeps being scheduled.
RouteSpec ==
    /\ Init
    /\ [][RouteNext]_vars
    /\ \A c \in Calls :
          /\ WF_vars(route_read(c))
          /\ WF_vars(route_post(c))
          /\ WF_vars(helper_services(c))

\* The scheduler while stop() is not called and every handler returns: the
\* thread inside run() keeps running the io_context's loop, a handler that
\* started returns, and the clock reaches the timer's expiry.
TickSpec ==
    /\ Init
    /\ [][TickNext]_vars
    /\ WF_vars(timer_expires)
    /\ WF_vars(callback_error)
    /\ WF_vars(callback_start)
    /\ WF_vars(handler_returns)
    /\ WF_vars(callback_reschedule)
    /\ WF_vars(advance_to_expiry)

\* Win32Thread instances and the threads they started.
ThreadSpec == Init /\ [][ThreadNext]_vars

\* Win32Thread instances, the threads they started and the caller's argument
\* objects.
ArgSpec == Init /\ [][ArgNext]_vars

\* Win32Timer instances.
TimerSpec == Init /\ [][TimerNext]_vars

\* The capability probe and the mirrored calls.
ProxySpec == Init /\ [][ProxyNext]_vars

(***************************************************************************)
(* Properties of PluginContext                                             *)
(***************************************************************************)
\* A step that arms the timer: a call of async_handle_events(), from outside
\* or as the callback's last statement.
ArmStep == calls' # calls \/ (pc = "resched" /\ pc' = "loop")

\* A step in which a handler invocation starts.
StartStep == pc # "handler" /\ pc' = "handler"

\* C1: event_loop_active is true exactly while a handler passed to
\* async_handle_events() is executing: false from construction to the first
\* handler's start, true from a handler's start to its end, false again after
\* the handler ended, on every exit path of the handler.  (The thread inside
\* run() is the only one that executes handlers, and pc is its one position:
\* two invocations never execute at once.)
C1_ActiveIffHandlerExecuting == event_loop_active <=> (pc = "handler")

\* C2: a tick is never scheduled to fire less than 5 ms after the moment it
\* is scheduled, and a handler never starts less than 5 ms after the previous
\* handler returned, whatever the handler's duration.
C2_MinimumGap ==
    /\ [][ArmStep => expiry' >= now + min_gap]_vars
    /\ [][(StartStep /\ last_return # None)
             => now' >= last_return + min_gap]_vars

\* C2 witness: a handler that started exactly 5 ms after the previous one
\* returned; the previous one had overrun the interval.
C2_Witness ==
    /\ pc = "handler"
    /\ last_return # None
    /\ last_return > event_loop_interval
    /\ now = last_return + min_gap

\* An inbound call made by the other side while it handles the handler's
\* round trip.
Triggered(c) == inbound[c].trig /\ inbound[c].st # "none"

\* The thread inside run() is blocked in the handler's round trip, and a call
\* that the round trip waits for is routed to that thread.
ReentrancyDeadlock ==
    /\ pc = "handler"
    /\ rt = "waiting"
    /\ \E c \in Calls :
          Triggered(c) /\ inbound[c].st \in {"toPost", "posted"}

\* C3: with inbound calls routed on event_loop_active, the thread inside
\* run() is never blocked in the handler's round trip on an inbound call that
\* is queued on that thread, and every inbound call that the round trip
\* triggers is serviced: none stays unserviced.
C3_NoReentrancyDeadlock ==
    /\ []~ReentrancyDeadlock
    /\ \A c \in Calls :
          (Triggered(c) /\ inbound[c].st = "arrived")
             ~> (inbound[c].st = "serviced")

\* C3 witness: the thread inside run() is blocked in the round trip and a
\* call triggered by it was serviced on a helper thread, while another call
\* sits posted on the io_context.
C3_Witness ==
    /\ pc = "handler"
    /\ rt = "waiting"
    /\ \E c \in Calls : Triggered(c) /\ inbound[c].st = "serviced"
    /\ \E c \in Calls : ~inbound[c].trig /\ inbound[c].st = "posted"

\* C9: after stop() no handler invocation starts; an invocation that is
\* executing when stop() is called runs on, and once it is over
\* event_loop_active is false; only stop() ends the tick sequence: before
\* stop(), once async_handle_events() was called and run() entered, a wait is
\* outstanding, or its callback is queued or executing.
C9_StopEndsTicks ==
    /\ [][stopped => ~StartStep]_vars
    /\ [](stopped /\ pc # "handler" => ~event_loop_active)
    /\ []((~stopped /\ calls > 0 /\ pc # "norun")
            => \/ timer_waits > 0
               \/ pc \in {"handler", "resched"}
               \/ \E i \in 1..Len(ready) : ready[i] = "ok")

\* C13: every call of async_handle_events(), from outside or from the
\* callback, sets the next firing time to the maximum of the previously
\* scheduled firing time plus event_loop_interval and now plus 5 ms: it is
\* the previous firing time plus the interval when that is at least 5 ms
\* ahead (no drift), and now plus 5 ms when the handler overran.
C13_NextFiringTime ==
    [][ArmStep
         => /\ expiry' = Max(expiry + event_loop_interval, now + min_gap)
            /\ (now + min_gap <= expiry + event_loop_interval
                   => expiry' = expiry + event_loop_interval)
            /\ (now + min_gap > expiry + event_loop_interval
                   => expiry' = now + min_gap)]_vars

\* C13 witness: after one call from outside the first handler returned on
\* time and the callback scheduled the second tick one interval after the
\* first tick's firing time.
C13_Witness ==
    /\ calls = 1
    /\ rearms = 1
    /\ pc = "loop"
    /\ timer_waits = 1
    /\ expiry = 2 * event_loop_interval

\* C14: within one tick the callback sets event_loop_active, runs the
\* handler, resets event_loop_active and only then schedules the next tick:
\* the callback never schedules the next tick while event_loop_active is
\* true, and it schedules exactly one next tick per handler invocation that
\* completed.
C14_TickOrder ==
    /\ [][StartStep => event_loop_active']_vars
    /\ [](pc = "handler" => event_loop_active)
    /\ [](pc = "resched" => ~event_loop_active)
    /\ [][rearms' # rearms
            => /\ pc = "resched"
               /\ ~event_loop_active
               /\ rearms' = rearms + 1
               /\ timer_waits' = 1]_vars
    /\ [](rearms = toggles - (IF pc = "resched" THEN 1 ELSE 0))
    /\ [](toggles <= ticks /\ ticks <= toggles + 1)

\* C14 witness: the second handler returned, event_loop_active is false
\* again, and the callback is about to schedule the third tick.
C14_Witness ==
    /\ pc = "resched"
    /\ ticks = 2
    /\ toggles = 2
    /\ rearms = 1
    /\ ~event_loop_active

\* C15 (start times): with handlers that return instantaneously, consecutive
\* ticks start at least event_loop_interval apart, and after N ticks
\* event_loop_active has gone from true to false N times.
C15_StartsIntervalApart ==
    /\ [][(StartStep /\ all_instant /\ last_return # None)
            => now' >= last_return + event_loop_interval]_vars
    /\ []((all_instant /\ pc # "handler") => toggles = ticks)

\* C15 (firing times): with handlers that return instantaneously, the
\* scheduled firing times of consecutive ticks are at least
\* event_loop_interval apart and no wait completes before its firing time (a
\* tick that starts late is followed by one less than the interval after
\* it), and after N ticks event_loop_active has gone from true to false N
\* times, once per tick.
C15_FiringTimesIntervalApart ==
    /\ [][ArmStep => expiry' >= expiry + event_loop_interval]_vars
    /\ [][(timer_waits > 0 /\ timer_waits' = 0) => now >= expiry]_vars
    /\ [][ticks' # ticks => (toggles = ticks /\ ticks' = ticks + 1)]_vars
    /\ []((all_instant /\ pc # "handler") => toggles = ticks)

\* C15 witness: two handlers started and returned instantaneously.
C15_Witness ==
    /\ all_instant
    /\ ticks = 2
    /\ toggles = 2
    /\ pc = "resched"
    /\ now = last_return

\* C17: only the thread inside run() writes event_loop_active, in the
\* completion callback: every step that changes it is a step of that thread
\* from the callback's start to the handler's return.  The other threads
\* only read it.
C17_WrittenByRunThread ==
    [][event_loop_active' # event_loop_active
         => \/ (pc = "loop" /\ pc' = "handler")
            \/ (pc = "handler" /\ pc' = "resched")]_vars

\* C17 witness: the thread inside run() set event_loop_active, and a
\* receiving thread read it as true.
C17_Witness ==
    /\ event_loop_active
    /\ pc = "handler"
    /\ \E c \in Calls : inbound[c].st = "helper"

\* The thread inside run() runs the callback of a cancelled wait.
ErrorCallbackStep ==
    /\ pc = "loop"
    /\ ready # <<>>
    /\ Head(ready) = "aborted"
    /\ ready' = Tail(ready)

\* C18: the callback of a wait that completed with an error does not invoke
\* the handler, leaves event_loop_active as it is and schedules no further
\* tick.
C18_ErrorCallbackDoesNothing ==
    [][ErrorCallbackStep
         => /\ pc' = "loop"
            /\ ticks' = ticks
            /\ event_loop_active' = event_loop_active
            /\ timer_waits' = timer_waits
            /\ expiry' = expiry
            /\ rearms' = rearms]_vars

\* C18 witness: the second call from outside cancelled the first wait (no
\* handler started, so the first wait did not complete), and the callback
\* of the cancelled wait ran: only the second wait is left.
C18_Witness ==
    /\ calls = 2
    /\ ticks = 0
    /\ pc = "loop"
    /\ ~stopped
    /\ ready = <<>>
    /\ timer_waits = 1

\* The callbacks of completed waits that are queued.
QueuedTicks == Cardinality({i \in 1..Len(ready) : ready[i] = "ok"})

\* The tick chains that are live: waits in the timer queue, callbacks of
\* completed waits that are queued, and the callback that is executing.
LiveChains ==
    timer_waits + QueuedTicks + (IF pc \in {"handler", "resched"} THEN 1 ELSE 0)

\* The timer is armed while a wait is in the timer queue: the wait is
\* cancelled, its callback is queued with an error, and one wait is left.
RearmCancels ==
    [][(ArmStep /\ timer_waits > 0)
         => /\ ready' = ready \o Callbacks(timer_waits, "aborted")
            /\ timer_waits' = 1]_vars

\* C19 (never two chains): a call of async_handle_events() while a tick
\* waits on the timer cancels that wait; after any sequence of calls at most
\* one wait is outstanding and at most one tick chain is live.
C19_OneLiveChain ==
    /\ RearmCancels
    /\ [](timer_waits <= 1)
    /\ [](LiveChains <= 1)

\* C19 (never two waits): a call of async_handle_events() while a tick waits
\* on the timer cancels that wait; after any sequence of calls at most one
\* wait is outstanding.  A call made after the previous tick's wait
\* completed (its callback queued or executing) adds a second chain, which
\* lives until that callback schedules its next tick: at most two chains are
\* live, and one again after the callback scheduled the next tick.
C19_OneWaitOutstanding ==
    /\ RearmCancels
    /\ [](timer_waits <= 1)
    /\ [](LiveChains <= 2)
    /\ [][(calls' # calls /\ LiveChains = timer_waits) => LiveChains' = 1]_vars
    /\ [](LiveChains = 2 => (timer_waits = 1 /\ calls >= 2))
    /\ [][(pc = "resched" /\ pc' = "loop") => LiveChains' = 1]_vars

\* C19 witness: the second call from outside cancelled the wait of the
\* first; the cancelled wait's callback is queued and one wait is
\* outstanding.
C19_Witness ==
    /\ calls = 2
    /\ timer_waits = 1
    /\ LiveChains = 1
    /\ \E i \in 1..Len(ready) : ready[i] = "aborted"

\* The ticks that fit below the clock's bound.
MaxTicks == MaxTime \div event_loop_interval

\* C20: after a call of async_handle_events(), while run() executes, stop()
\* is not called and every handler returns, the tick chain does not end and
\* a further handler invocation eventually starts (as long as the next
\* firing time is within the clock's bound).
C20_TicksKeepComing ==
    /\ []((calls > 0 /\ pc # "norun") => LiveChains >= 1)
    /\ \A n \in 0..MaxTicks :
          (calls > 0 /\ pc # "norun" /\ ticks = n)
             ~> (ticks > n \/ expiry > MaxTime)

\* C20 witness: after one call the second handler invocation started.
C20_Witness ==
    /\ calls = 1
    /\ ticks = 2
    /\ pc = "handler"
    /\ ~stopped

(***************************************************************************)
(* Properties of Win32Thread                                               *)
(***************************************************************************)
\* The instances that own thread handle h.
Owners(h) == {o \in ThreadObjs : thread[o].st = "alive" /\ thread[o].handle = h}

\* A handle has at most one owner; a handle that was created is owned until
\* it is closed, and it is closed once.
ThreadOwnership ==
    \A h \in Handles :
        /\ Cardinality(Owners(h)) <= 1
        /\ closed[h] <= 1
        /\ h \in created => (closed[h] = 1 <=> Owners(h) = {})
        /\ h \notin created => (closed[h] = 0 /\ Owners(h) = {})

\* Destroying an instance that holds a null handle closes nothing.
EmptyDestructionIsNoOp ==
    \A o \in ThreadObjs :
        (thread[o].st = "alive" /\ thread'[o].st = "dead"
            /\ thread[o].handle = NullHandle) => closed' = closed

\* C4 (release at destruction only): each handle has at most one owner, an
\* instance without a handle releases nothing, and every created handle is
\* closed exactly once, in the step that destroys its owner.
C4_ClosedWhenOwnerDestroyed ==
    /\ []ThreadOwnership
    /\ [][EmptyDestructionIsNoOp]_vars
    /\ [][\A h \in Handles :
             closed'[h] # closed[h]
                => \E o \in Owners(h) : thread'[o].st = "dead"]_vars

\* C4 (release at destruction or assignment): each handle has at most one
\* owner, an instance without a handle releases nothing, and every created
\* handle is closed exactly once: in the step that destroys its owner, or in
\* the step that move-assigns another instance to its owner.
C4_ClosedOnceByOwner ==
    /\ []ThreadOwnership
    /\ [][EmptyDestructionIsNoOp]_vars
    /\ [][\A h \in Handles :
             closed'[h] # closed[h]
                => \E o \in Owners(h) :
                      \/ thread'[o].st = "dead"
                      \/ thread'[o].st = "alive" /\ thread'[o].handle # h]_vars

\* C4 witness: a handle that was moved out of the instance that created it
\* and closed once by the destruction of its last owner, the moved-from
\* creator destroyed as well; and a handle closed by a move-assignment.
C4_Witness ==
    /\ \E h \in created : \E o \in ThreadObjs :
          /\ o # h
          /\ thread[o].st = "dead" /\ thread[o].handle = h
          /\ thread[h].st = "dead"
          /\ closed[h] = 1
    /\ \E h \in created :
          /\ closed[h] = 1
          /\ \A o \in ThreadObjs : thread[o].handle # h

\* C11: the entry function of a Win32Thread that was constructed with
\* arguments is executed once on the new thread, with the argument values as
\* they were at construction, whenever the new thread starts to run: before
\* or after the caller changed its argument objects or let them go out of
\* scope.
C11_RunsOnceWithConstructionArgs ==
    \A h \in Handles :
        /\ invoked[h] <= 1
        /\ closure[h] \in {"running", "freed"} => invoked[h] = 1
        /\ received[h] \in {"none", "same"}

\* C12: when CreateThread() fails, the constructor does not return an
\* instance that owns no thread, and the closure it allocated does not stay
\* allocated: a closure exists only for a thread that was created.
C12_FailureReported ==
    \A o \in ThreadObjs : closure[o] # "none" => o \in created

\* A step of the constructor that starts a thread: it allocates a closure.
StartStepOfThread ==
    \E o \in ThreadObjs : closure[o] = "none" /\ closure'[o] = "heap"

\* Another step of an instance: a default construction, a move or a
\* destruction.
OwnerStep == thread' # thread /\ ~StartStepOfThread

\* C16: destroying or moving a Win32Thread while its thread runs releases or
\* transfers the handle only: the thread and its closure are left as they
\* are, the entry function can still return, and the closure is deleted
\* once, by the thread, after the entry function returned.
C16_ThreadOutlivesOwner ==
    /\ [][OwnerStep => UNCHANGED execVars]_vars
    /\ [][\A h \in Handles :
             deleted'[h] # deleted[h]
                => /\ closure[h] = "running"
                   /\ closure'[h] = "freed"
                   /\ deleted'[h] = 1
                   /\ UNCHANGED <<thread, closed>>]_vars
    /\ [](\A h \in Handles :
             /\ closure[h] \in {"none", "heap", "running", "freed"}
             /\ deleted[h] = (IF closure[h] = "freed" THEN 1 ELSE 0))

\* C16 witness: a thread's handle was moved to another instance and that
\* instance was destroyed while the thread ran: the handle is closed, the
\* entry function is still executing, and the closure is not deleted yet.
C16_Witness ==
    \E h \in created : \E o \in ThreadObjs :
        /\ o # h
        /\ thread[o].st = "dead" /\ thread[o].handle = h
        /\ closed[h] = 1
        /\ closure[h] = "running"
        /\ deleted[h] = 0

(***************************************************************************)
(* Properties of Win32Timer                                                *)
(***************************************************************************)
\* The instances that hold native timer t.
TimerHolders(t) ==
    {o \in TimerObjs : /\ wtimer[o].st = "alive"
                       /\ wtimer[o].timer_id # NoTimer
                       /\ Held(wtimer[o]) = t}

\* A timer is set exactly while one instance holds it, and it was killed as
\* often as it was set, less the time it is set now.
TimerOwnership ==
    \A t \in NativeTimers :
        /\ Cardinality(TimerHolders(t)) <= 1
        /\ t \in armed <=> TimerHolders(t) # {}
        /\ kill_count[t] = set_count[t] - (IF t \in armed THEN 1 ELSE 0)

\* Destroying an instance kills the timer it holds, and nothing when it holds
\* none.
TimerDestruction ==
    \A o \in TimerObjs :
        (wtimer[o].st = "alive" /\ wtimer'[o].st = "dead")
           => IF wtimer[o].timer_id = NoTimer
              THEN armed' = armed /\ kill_count' = kill_count
              ELSE /\ Held(wtimer[o]) \notin armed'
                   /\ kill_count' = [kill_count EXCEPT
                                        ![Held(wtimer[o])] = @ + 1]

C6_UnsupportedFailsFast ==
    \A p \in Proxies :
        (pst[p] = "built" /\ ~implements[p])
           => /\ ~args[p].supported
              /\ ~supported(proxy[p])
              /\ transport_calls[p] = 0
              /\ \A t \in Callers :
                    (issued[t] > 0 /\ cur[t] = p)
                       => /\ cst[t] = "idle"
                          /\ result[t] = "UnsupportedInterface"

\* C6 witness: a call on the proxy of an object without the interface
\* returned UnsupportedInterface, while another proxy did use the transport.
C6_Witness ==
    \E t \in Callers : \E p, q \in Proxies :
        /\ pst[p] = "built" /\ ~implements[p]
        /\ issued[t] > 0 /\ cur[t] = p
        /\ result[t] = "UnsupportedInterface"
        /\ transport_calls[q] > 0

\* C7: the serialized ConstructArgs are one byte, deserializing them yields
\* the value that was serialized, and supported() on the proxy built from it
\* is the probe's result on the side that owns the real object.
C7_ConstructArgsRoundTrip ==
    \A p \in Proxies :
        /\ pst[p] \in {"sent", "built"}
              => Len(wire[p]) = 1 /\ deserialize(wire[p]) = args[p]
        /\ pst[p] = "built"
              => /\ proxy[p].arguments = args[p]
                 /\ supported(proxy[p]) = implements[p]

\* C7 witness: proxies built for an object with the interface and for one
\* without it.
C7_Witness ==
    \E p, q \in Proxies :
        /\ pst[p] = "built" /\ implements[p]
        /\ wire[p] = <<1>> /\ supported(proxy[p])
        /\ pst[q] = "built" /\ ~implements[q]
        /\ wire[q] = <<0>> /\ ~supported(proxy[q])

\* The messages of thread t on the channel.
InFlight(t) ==
    {r \in requests : r.t = t} \cup {r \in responses : r.t = t}

\* C8: the real object receives the calls that one thread makes on one proxy
\* in the order the thread made them, and a thread has one call in flight at
\* most, for which it is blocked; whatever other threads and proxies do.
C8_CallsInIssueOrder ==
    /\ \A i, j \in 1..Len(remote_log) :
          (/\ i < j
           /\ remote_log[i].t = remote_log[j].t
           /\ remote_log[i].p = remote_log[j].p)
             => remote_log[i].n < remote_log[j].n
    /\ \A t \in Callers :
          /\ Cardinality(InFlight(t)) <= 1
          /\ InFlight(t) # {} => cst[t] = "waiting"
          /\ \A r \in InFlight(t) : r.n = issued[t]

\* C8 witness: the real object received two calls of one thread on one
\* proxy, and between them a call of another thread on the same proxy.
C8_Witness ==
    \E i, j, k \in 1..Len(remote_log) :
        /\ i < j /\ j < k
        /\ remote_log[i].t = remote_log[k].t
        /\ remote_log[i].p = remote_log[k].p
        /\ remote_log[j].t # remote_log[i].t
        /\ remote_log[j].p = remote_log[i].p

\* How often the real object applied call n of thread t.
Applied(t, n) ==
    Cardinality({i \in 1..Len(remote_log) :
                    remote_log[i].t = t /\ remote_log[i].n = n})

\* C10: the real object applies a call at most once and the proxy sends one
\* request for it at most; a call whose round trip completes returns the
\* value the real object returned, and one whose round trip fails returns a
\* failure.
C10_AtMostOnce ==
    \A t \in Callers :
        /\ \A n \in 1..MaxIssued : Applied(t, n) <= 1
        /\ sent[t] <= 1
        /\ (cst[t] = "idle" /\ issued[t] > 0 /\ supported(proxy[cur[t]]))
              => \/ result[t] = "RemoteCallError"
                 \/ /\ result[t] \in Results
                    /\ result[t] = returned[t]
                    /\ Applied(t, issued[t]) = 1

\* C10 witness: a call failed after the real object had applied it (the
\* response was lost), and a later call of the same thread completed.
C10_Witness ==
    \E t \in Callers :
        /\ issued[t] = 2
        /\ Applied(t, 1) = 1
        /\ Applied(t, 2) = 1
        /\ result[t] \in Results
        /\ \E u \in Callers :
              /\ result[u] = "RemoteCallError"
              /\ Applied(u, issued[u]) = 1
              /\ returned[u] \in Results
====
